---------------------------- MODULE Spec2Model ----------------------------
(***************************************************************************)
(* Spending Analyzer (src/app.py): the table loader, the normalisation     *)
(* pipeline and the budget evaluator of the Streamlit script.              *)
(*                                                                         *)
(* One step of the model is one user interaction followed by the complete  *)
(* rerun of the script that Streamlit performs for it.  What survives a    *)
(* rerun is the widget state (the uploaded file, the overall budget, the   *)
(* selected month) and st.session_state.rules; everything else is          *)
(* recomputed by the rerun and is kept here as what the run put on screen. *)
(*                                                                         *)
(* Text is a sequence of one-character strings.  Money is an integer       *)
(* number of cents, a date the integer YYYYMMDD, a month the integer       *)
(* YYYYMM, a progress value the fraction <<numerator, denominator>>.       *)
(* None (Python None, pandas NaN/NaT) is the empty sequence and Some(v)    *)
(* the one-element sequence.                                               *)
(***************************************************************************)
EXTENDS Integers, Sequences, FiniteSets, TLC

None == <<>>
Some(v) == <<v>>

\* a Python list: the values of f in the order of its indices
List(f) ==
    <<>> \o f

(***************************************************************************)
(* Bounds of the model.                                                    *)
(***************************************************************************)
\* data rows of an uploaded ledger
MaxRows == 2
\* rule-table edits in one session
MaxEdits == 1

(***************************************************************************)
(* Python str operations used by the script.                               *)
(***************************************************************************)
Whitespace == {" ", "\t"}
UpperCase == <<"A","B","C","D","E","F","G","H","I","J","K","L","M","N","O","P","Q","R","S","T","U","V","W","X","Y","Z">>
LowerCase == <<"a","b","c","d","e","f","g","h","i","j","k","l","m","n","o","p","q","r","s","t","u","v","w","x","y","z">>
DigitChars == <<"0","1","2","3","4","5","6","7","8","9">>

\* the lower-case letter of an upper-case letter
LowerOf ==
    [c \in {UpperCase[i] : i \in 1..26} |->
        LowerCase[CHOOSE i \in 1..26 : UpperCase[i] = c]]

LowerChar(c) ==
    IF c \in DOMAIN LowerOf THEN LowerOf[c] ELSE c

\* str.lower()
Lower(s) ==
    IF s = <<>> THEN <<>> ELSE List([i \in 1..Len(s) |-> LowerChar(s[i])])

RECURSIVE LStrip(_)
LStrip(s) ==
    IF s # <<>> /\ s[1] \in Whitespace THEN LStrip(Tail(s)) ELSE s

RECURSIVE RStrip(_)
RStrip(s) ==
    IF s # <<>> /\ s[Len(s)] \in Whitespace
    THEN RStrip(SubSeq(s, 1, Len(s) - 1))
    ELSE s

\* str.strip()
Strip(s) ==
    RStrip(LStrip(s))

\* the positions of c in s
Positions(s, c) ==
    IF s = <<>> THEN <<>>
    ELSE SelectSeq(List([i \in 1..Len(s) |-> i]), LAMBDA i : s[i] = c)

\* the pieces of s between the positions cut
Pieces(s, cut) ==
    List([k \in 1..Len(cut) - 1 |-> SubSeq(s, cut[k] + 1, cut[k + 1] - 1)])

\* str.split(c): the pieces between the occurrences of c, empty pieces kept
Split(s, c) ==
    Pieces(s, <<0>> \o Positions(s, c) \o <<Len(s) + 1>>)

\* c.join(parts)
RECURSIVE Join(_, _)
Join(parts, c) ==
    IF parts = <<>> THEN <<>>
    ELSE IF Len(parts) = 1 THEN parts[1]
    ELSE parts[1] \o <<c>> \o Join(Tail(parts), c)

\* x or "" : None and the empty string both give the empty string
OrEmpty(o) ==
    IF o = None THEN <<>> ELSE o[1]

(***************************************************************************)
(* pandas coercions.  The cells of the modelled ledgers are ISO dates      *)
(* (YYYY-MM-DD), plain decimals with at most two decimals, or text that    *)
(* is neither; an empty cell is a missing value.                           *)
(***************************************************************************)
IsDigits(s) ==
    s # <<>> /\ \A i \in 1..Len(s) : \E d \in 1..10 : DigitChars[d] = s[i]

DigitVal(c) ==
    (CHOOSE d \in 1..10 : DigitChars[d] = c) - 1

RECURSIVE NatOf(_)
NatOf(s) ==
    IF s = <<>> THEN 0 ELSE 10 * NatOf(SubSeq(s, 1, Len(s) - 1)) + DigitVal(s[Len(s)])

\* the cents of the pieces around the decimal point, None when they are not
\* [digits] or [digits].d[d]
Cents(parts) ==
    IF Len(parts) = 1 /\ IsDigits(parts[1])
    THEN Some(100 * NatOf(parts[1]))
    ELSE IF Len(parts) = 2 /\ IsDigits(parts[1]) /\ IsDigits(parts[2]) /\ Len(parts[2]) <= 2
    THEN Some(100 * NatOf(parts[1])
              + (IF Len(parts[2]) = 1 THEN 10 * NatOf(parts[2]) ELSE NatOf(parts[2])))
    ELSE None

\* the cents of an unsigned decimal
Unsigned(s) ==
    Cents(Split(s, "."))

\* the value with the sign turned
Negated(u) ==
    IF u = None THEN None ELSE Some(0 - u[1])

\* a coercion that loses the sign
ToNumericUnsigned(s) ==
    IF s # <<>> /\ s[1] = "-" THEN Unsigned(Tail(s)) ELSE Unsigned(s)

\* pd.to_numeric(cell, errors="coerce")
ToNumeric(s) ==
    IF s # <<>> /\ s[1] = "-" THEN Negated(Unsigned(Tail(s))) ELSE Unsigned(s)

DaysIn(y, m) ==
    IF m \in {4, 6, 9, 11} THEN 30
    ELSE IF m = 2 THEN (IF y % 4 = 0 /\ (y % 100 # 0 \/ y % 400 = 0) THEN 29 ELSE 28)
    ELSE 31

\* the calendar date, None when there is no such day
DateOf(y, m, d) ==
    IF y >= 1 /\ m \in 1..12 /\ d \in 1..DaysIn(y, m)
    THEN Some(10000 * y + 100 * m + d)
    ELSE None

\* pd.to_datetime(cell, errors="coerce")
ToDatetime(s) ==
    IF /\ Len(s) = 10
       /\ s[5] = "-"
       /\ s[8] = "-"
       /\ IsDigits(SubSeq(s, 1, 4))
       /\ IsDigits(SubSeq(s, 6, 7))
       /\ IsDigits(SubSeq(s, 9, 10))
    THEN DateOf(NatOf(SubSeq(s, 1, 4)), NatOf(SubSeq(s, 6, 7)), NatOf(SubSeq(s, 9, 10)))
    ELSE None

\* Series.dt.to_period("M")
ToPeriod(d) ==
    d \div 100

(***************************************************************************)
(* Tables.  A frame as pd.read_csv / pd.read_excel returns it has the      *)
(* column names and the rows of cell texts; an empty cell text is a        *)
(* missing value (NaN).                                                    *)
(***************************************************************************)
\* pd.DataFrame()
EmptyFrame ==
    [columns |-> <<>>, rows |-> <<>>]

\* DataFrame.empty: some axis has length 0
IsEmpty(df) ==
    Len(df.columns) = 0 \/ Len(df.rows) = 0

Comma == ","
Semicolon == ";"
Tab == "\t"
Pipe == "|"
\* the explicit separators with the first two exchanged
FallbackSepsSwapped ==
    <<Semicolon, Comma, Tab, Pipe>>

\* the explicit separators tried after the first attempt, in this order
FallbackSeps ==
    <<Comma, Semicolon, Tab, Pipe>>

(***************************************************************************)
(* An uploaded file: its extension; for a text file the stripped text as   *)
(* header fields and rows of fields written with the delimiter d; what     *)
(* csv.Sniffer finds in the first 4096 characters (sniff); what pandas'    *)
(* own sniffing finds when it is given sep=None (auto); and the set of     *)
(* separators under which pd.read_csv rejects the text (bad), for ragged   *)
(* rows or quoting.  For a spreadsheet, corrupt says pd.read_excel raises. *)
(***************************************************************************)
IsExcel(f) ==
    f.ext \in {"xlsx", "xls"}

\* the frame when the text is split at its own delimiter
Parsed(f) ==
    [columns |-> f.header, rows |-> f.rows]

\* the frame when the text is split at another character: one column
Unsplit(f) ==
    [columns |-> <<Join(f.header, f.d)>>,
     rows    |-> List([i \in 1..Len(f.rows) |-> <<Join(f.rows[i], f.d)>>])]

\* pd.read_csv(io.StringIO(stripped), sep=sep, engine="python"):
\* ok = FALSE is a raised exception
RECURSIVE ReadCsv(_, _)
ReadCsv(f, sep) ==
    IF f.header = <<>>
    THEN [ok |-> FALSE, df |-> EmptyFrame]
    ELSE IF sep = None
    THEN (IF f.auto = None THEN [ok |-> FALSE, df |-> EmptyFrame] ELSE ReadCsv(f, f.auto))
    ELSE IF sep[1] \in f.bad
    THEN [ok |-> FALSE, df |-> EmptyFrame]
    ELSE IF sep[1] = f.d
    THEN [ok |-> TRUE, df |-> Parsed(f)]
    ELSE [ok |-> TRUE, df |-> Unsplit(f)]

\* the for-loop over the explicit separators; tried is the log of the
\* separators handed to pd.read_csv so far
RECURSIVE Fallback(_, _, _)
Fallback(f, seps, tried) ==
    IF seps = <<>>
    THEN [df |-> EmptyFrame, attempts |-> tried, errors |-> <<>>]
    ELSE IF ReadCsv(f, Some(Head(seps))).ok
    THEN [df |-> ReadCsv(f, Some(Head(seps))).df,
          attempts |-> Append(tried, Some(Head(seps))),
          errors |-> <<>>]
    ELSE Fallback(f, Tail(seps), Append(tried, Some(Head(seps))))

FailedExcel == "Failed to read Excel"

\* load_table(uploaded_file) for an uploaded file
load_table(f) ==
    IF IsExcel(f)
    THEN (IF f.corrupt
          THEN [df |-> EmptyFrame, attempts |-> <<>>, errors |-> <<FailedExcel>>]
          ELSE [df |-> Parsed(f), attempts |-> <<>>, errors |-> <<>>])
    ELSE IF ReadCsv(f, f.sniff).ok
    THEN [df |-> ReadCsv(f, f.sniff).df, attempts |-> <<f.sniff>>,
          errors |-> <<>>]
    ELSE Fallback(f, FallbackSeps, <<f.sniff>>)

\* the bundled sample
sample_csv ==
    [ext |-> "csv", corrupt |-> FALSE, d |-> Comma, sniff |-> Some(Comma),
     auto |-> None, bad |-> {},
     header |-> <<<<"d","a","t","e">>, <<"a","m","o","u","n","t">>, <<"d","e","s","c","r","i","p","t","i","o","n">>>>,
     rows |-> << <<<<"2","0","2","4","-","0","9","-","0","1">>, <<"-","8","5",".","2","0">>, <<"M","e","t","r","o"," ","G","r","o","c","e","r","i","e","s">>>>,
                 <<<<"2","0","2","4","-","0","9","-","0","2">>, <<"-","1","8",".","7","0">>, <<"U","B","E","R"," ","R","i","d","e">>>>,
                 <<<<"2","0","2","4","-","0","9","-","0","3">>, <<"2","0","0","0",".","0","0">>, <<"P","a","y","r","o","l","l"," ","D","e","p","o","s","i","t">>>>,
                 <<<<"2","0","2","4","-","0","9","-","0","5">>, <<"-","1","2","0",".","0","0">>, <<"C","o","s","t","c","o"," ","W","h","o","l","e","s","a","l","e">>>>,
                 <<<<"2","0","2","4","-","0","9","-","0","9">>, <<"-","5","5",".","9","9">>, <<"C","i","n","e","p","l","e","x"," ","M","o","v","i","e","s">>>>,
                 <<<<"2","0","2","4","-","0","9","-","1","0">>, <<"-","1","5",".","9","9">>, <<"N","e","t","f","l","i","x"," ","S","u","b","s","c","r","i","p","t","i","o","n">>>>,
                 <<<<"2","0","2","4","-","0","9","-","1","2">>, <<"-","6","0",".","0","0">>, <<"S","h","e","l","l"," ","G","a","s"," ","S","t","a","t","i","o","n">>>>,
                 <<<<"2","0","2","4","-","0","9","-","1","6">>, <<"1","5","0","0",".","0","0">>, <<"F","r","e","e","l","a","n","c","e"," ","I","n","c","o","m","e">>>> ,
                 <<<<"2","0","2","4","-","0","9","-","1","9">>, <<"-","1","2",".","0","0">>, <<"S","p","o","t","i","f","y"," ","P","r","e","m","i","u","m">>>> >>]

(***************************************************************************)
(* Normalisation of the loaded frame.                                      *)
(***************************************************************************)
\* df.columns = [c.strip().lower() for c in df.columns]
NormalizeHeaders(columns) ==
    List([i \in 1..Len(columns) |-> Lower(Strip(columns[i]))])

required ==
    {<<"d","a","t","e">>, <<"a","m","o","u","n","t">>, <<"d","e","s","c","r","i","p","t","i","o","n">>}

HasRequired(columns) ==
    \A c \in required : \E i \in 1..Len(columns) : columns[i] = c

\* df[name]: the position of the column of that name
ColIndex(columns, name) ==
    CHOOSE i \in 1..Len(columns) : columns[i] = name

\* the dtype pandas gives a parsed column is str (object) when some cell is
\* text that is no number; an all-missing or all-numeric column is float64
IsStrColumn(df, c) ==
    \E i \in 1..Len(df.rows) : df.rows[i][c] # <<>> /\ ToNumeric(df.rows[i][c]) = None

\* the coerced row: pandas' index label, date and amount (None when the
\* coercion failed), and the description cell
Coerce(columns, row, i) ==
    [index       |-> i - 1,
     date        |-> ToDatetime(row[ColIndex(columns, <<"d","a","t","e">>)]),
     amount      |-> ToNumeric(row[ColIndex(columns, <<"a","m","o","u","n","t">>)]),
     description |-> row[ColIndex(columns, <<"d","e","s","c","r","i","p","t","i","o","n">>)]]

\* df.dropna() over every column
DropNaAnyColumn(rows) ==
    SelectSeq(rows, LAMBDA r : r.date # None /\ r.amount # None /\ r.description # <<>>)

\* df.dropna(subset=["date","amount"])
DropNa(rows) ==
    SelectSeq(rows, LAMBDA r : r.date # None /\ r.amount # None)

\* the rows that are left, date and amount holding their values
Values(rows) ==
    List([i \in 1..Len(rows) |->
        [index |-> rows[i].index, date |-> rows[i].date[1],
         amount |-> rows[i].amount[1], description |-> rows[i].description]])

\* the normalised table
ParseTypes(columns, rawrows) ==
    Values(DropNa(List([i \in 1..Len(rawrows) |-> Coerce(columns, rawrows[i], i)])))

RECURSIVE SumOf(_, _)
\* Series.sum() of the field fld
SumOf(rows, fld) ==
    IF rows = <<>> THEN 0 ELSE rows[1][fld] + SumOf(Tail(rows), fld)

(***************************************************************************)
(* Budget rules and their evaluation.                                      *)
(***************************************************************************)
DefaultRules ==
    << [category |-> Some(<<"G","r","o","c","e","r","i","e","s">>),
        keywords |-> Some(<<"m","e","t","r","o",",","c","o","s","t","c","o",",","w","a","l","m","a","r","t",",","s","u","p","e","r","s","t","o","r","e">>),
        budget   |-> Some(30000)],
       [category |-> Some(<<"T","r","a","n","s","p","o","r","t">>),
        keywords |-> Some(<<"u","b","e","r",",","l","y","f","t",",","s","h","e","l","l",",","e","s","s","o",",","p","e","t","r","o",",","g","a","s">>),
        budget   |-> Some(15000)],
       [category |-> Some(<<"E","n","t","e","r","t","a","i","n","m","e","n","t">>),
        keywords |-> Some(<<"c","i","n","e","p","l","e","x",",","n","e","t","f","l","i","x",",","s","p","o","t","i","f","y",",","s","t","e","a","m">>),
        budget   |-> Some(10000)] >>

\* the defaults on every run
SessionRulesReset(stored) ==
    DefaultRules

\* if "rules" not in st.session_state: the defaults, else what is stored
SessionRules(stored) ==
    IF stored = None THEN DefaultRules ELSE stored[1]

\* min(1.0, spent / limit) without the test of the limit
ProgressUnguarded(spent, limit) ==
    IF limit > 0 /\ spent >= limit THEN <<1, 1>> ELSE <<spent, limit>>

\* min(1.0, spent / limit) if limit > 0 else 0.0, as a fraction
Progress(spent, limit) ==
    IF limit > 0
    THEN (IF spent >= limit THEN <<1, 1>> ELSE <<spent, limit>>)
    ELSE <<0, 1>>

\* (rule.get("category") or "").strip() or "(Unnamed)"
CategoryOf(rule) ==
    IF Strip(OrEmpty(rule.category)) = <<>>
    THEN <<"(","U","n","n","a","m","e","d",")">>
    ELSE Strip(OrEmpty(rule.category))

\* float(rule.get("budget") or 0.0)
LimitOf(rule) ==
    IF rule.budget = None THEN 0 ELSE rule.budget[1]

\* k.strip().lower() of every piece
Keywords(pieces) ==
    List([k \in 1..Len(pieces) |-> Lower(Strip(pieces[k]))])

\* the pieces with something but whitespace in them (if k.strip())
NonBlank(pieces) ==
    SelectSeq(pieces, LAMBDA k : Strip(k) # <<>>)

\* [k.strip().lower() for k in kw_str.split(",") if k.strip()]
KeywordsOf(rule) ==
    Keywords(NonBlank(Split(Strip(OrEmpty(rule.keywords)), ",")))

\* Series.str.contains(k) takes k as a regular expression: a letter, digit
\* or space stands for itself, and a pattern with an unclosed "(" does not
\* compile (re.error).  The keywords of the model hold no other character.
PatternError(k) ==
    \E i \in 1..Len(k) : k[i] = "("

\* re.search of a pattern of plain characters: substring search
StrContains(s, k) ==
    \E i \in 0..(Len(s) - Len(k)) : SubSeq(s, i + 1, i + Len(k)) = k

\* the descriptions as they are written
DescAsIs(expenses) ==
    List([i \in 1..Len(expenses) |-> expenses[i].description])

\* expenses["description"].str.lower().fillna("")
DescLower(expenses) ==
    List([i \in 1..Len(expenses) |-> Lower(expenses[i].description)])

\* the mask: the OR over the keywords of desc_lower.str.contains(k, na=False)
Mask(desc_lower, keywords) ==
    List([i \in 1..Len(desc_lower) |->
        \E j \in 1..Len(keywords) : StrContains(desc_lower[i], keywords[j])])

\* expenses[mask]
RECURSIVE Filter(_, _)
Filter(rows, mask) ==
    IF rows = <<>> THEN <<>>
    ELSE (IF mask[1] THEN <<rows[1]>> ELSE <<>>) \o Filter(Tail(rows), Tail(mask))

Matched(expenses, desc_lower, keywords) ==
    Filter(expenses, Mask(desc_lower, keywords))

\* what the loop body leaves for a rule: kind is "no keywords set" (the
\* caption), "raised" (an exception leaves the body) or "spent" (the bar)
Outcome(rule, kind, keywords, matched, cat_spent) ==
    [category |-> CategoryOf(rule), kind |-> kind, keywords |-> keywords,
     matched |-> matched, cat_spent |-> cat_spent, limit |-> LimitOf(rule),
     progress |-> IF kind = "spent" THEN Progress(cat_spent, LimitOf(rule)) ELSE <<0, 1>>]

\* cat_spent and the bar of the matched rows
Spent(rule, keywords, matched) ==
    Outcome(rule, "spent", keywords, matched, SumOf(matched, "spent"))

\* the loop body once the keywords are split; raised = TRUE when an
\* exception leaves it (.str on a column that is not of strings, or a
\* pattern that does not compile)
Evaluate(rule, keywords, expenses, desc_lower, descIsStr) ==
    IF keywords = <<>>
    THEN [raised |-> FALSE, outcome |-> Outcome(rule, "no keywords set", <<>>, <<>>, 0)]
    ELSE IF ~descIsStr \/ \E i \in 1..Len(keywords) : PatternError(keywords[i])
    THEN [raised |-> TRUE, outcome |-> Outcome(rule, "raised", keywords, <<>>, 0)]
    ELSE [raised |-> FALSE,
          outcome |-> Spent(rule, keywords, Matched(expenses, desc_lower, keywords))]

\* one pass of the for-loop body
EvalRule(rule, expenses, desc_lower, descIsStr) ==
    Evaluate(rule, KeywordsOf(rule), expenses, desc_lower, descIsStr)

RECURSIVE EvalRules(_, _, _, _, _)
\* the loop after the pass r: an exception ends it, else it goes on with the
\* rules that are left
Passed(r, rest, results, expenses, desc_lower, descIsStr) ==
    IF r.raised
    THEN [raised |-> TRUE, results |-> results]
    ELSE EvalRules(rest, Append(results, r.outcome), expenses, desc_lower, descIsStr)

\* for rule in st.session_state.rules: results are the outcomes written
\* before the loop ends or an exception leaves it
EvalRules(rules, results, expenses, desc_lower, descIsStr) ==
    IF rules = <<>>
    THEN [raised |-> FALSE, results |-> results]
    ELSE Passed(EvalRule(Head(rules), expenses, desc_lower, descIsStr),
                Tail(rules), results, expenses, desc_lower, descIsStr)

(***************************************************************************)
(* The rule table editor.  An edit is what the user did to the table that  *)
(* st.data_editor shows; the editor returns the table with the edit        *)
(* applied.                                                                *)
(***************************************************************************)
NoEdit ==
    [op |-> "none", i |-> 0, text |-> <<>>, budget |-> None]

\* the keyword texts a user types into a cell, and the keywords a user adds
BlankTexts == {<<" ",","," ">>}
NewKeywords == {<<"G","a","s">>, <<"(">>}
NewBudgets == {None, Some(0), Some(1000)}

RemoveAt(s, i) ==
    SubSeq(s, 1, i - 1) \o SubSeq(s, i + 1, Len(s))

AppendKeyword(cell, k) ==
    IF Strip(OrEmpty(cell)) = <<>> THEN Some(k) ELSE Some(cell[1] \o <<",">> \o k)

\* edited = st.data_editor(rules_df, num_rows="dynamic"); edited.to_dict("records")
Edited(rules, e) ==
    IF e.op = "keyword"
    THEN [rules EXCEPT ![e.i].keywords = AppendKeyword(@, e.text)]
    ELSE IF e.op = "keywords"
    THEN [rules EXCEPT ![e.i].keywords = Some(e.text)]
    ELSE IF e.op = "budget"
    THEN [rules EXCEPT ![e.i].budget = e.budget]
    ELSE IF e.op = "delete"
    THEN RemoveAt(rules, e.i)
    ELSE IF e.op = "clear"
    THEN <<>>
    ELSE IF e.op = "add"
    THEN Append(rules, [category |-> None, keywords |-> None, budget |-> None])
    ELSE rules

\* the edits a user can make to a table of n rows
Edits(n) ==
    {[op |-> "keyword", i |-> i, text |-> k, budget |-> None] : i \in 1..n, k \in NewKeywords}
    \cup {[op |-> "keywords", i |-> i, text |-> t, budget |-> None] : i \in 1..n, t \in BlankTexts}
    \cup {[op |-> "budget", i |-> i, text |-> <<>>, budget |-> b] : i \in 1..n, b \in NewBudgets}
    \cup {[op |-> "delete", i |-> i, text |-> <<>>, budget |-> None] : i \in 1..n}
    \cup {[op |-> "clear", i |-> 0, text |-> <<>>, budget |-> None],
          [op |-> "add", i |-> 0, text |-> <<>>, budget |-> None]}

(***************************************************************************)
(* The uploaded ledgers of the model.                                      *)
(***************************************************************************)
Header3 ==
    <<<<"d","a","t","e">>, <<"a","m","o","u","n","t">>, <<"d","e","s","c","r","i","p","t","i","o","n">>>>

\* the rows a ledger is made of: two expenses (one without description),
\* an income of another month, a row with a bad date, a row with a bad amount
RowValues ==
    { <<<<"2","0","2","4","-","0","9","-","1","2">>, <<"-","6","0",".","0","0">>, <<"C","o","s","t","c","o"," ","G","a","s">>>>,
      <<<<"2","0","2","4","-","0","8","-","3","0">>, <<"2","5",".","0","0">>, <<"E","s","s","o"," ","R","e","f","u","n","d">>>>,
      <<<<"2","0","2","4","-","0","8","-","1","5">>, <<"-","7",".","2","5">>, <<>> >>,
      <<<<"n","/","a">>, <<"-","5",".","0","0">>, <<"S","h","e","l","l">>>>,
      <<<<"2","0","2","4","-","0","9","-","0","5">>, <<"a","b","c">>, <<"M","e","t","r","o">>>> }

SeqsUpTo(S, n) ==
    UNION {[1..k -> S] : k \in 0..n}

TextFile(header, rows) ==
    [ext |-> "csv", corrupt |-> FALSE, d |-> Comma, sniff |-> Some(Comma),
     auto |-> None, bad |-> {}, header |-> header, rows |-> rows]

\* well-formed comma-separated ledgers of up to MaxRows rows (none: header only)
LedgerFiles ==
    {TextFile(Header3, rows) : rows \in SeqsUpTo(RowValues, MaxRows)}

\* one ledger under every outcome of sniffing and parsing
SniffOutcomes(d) ==
    {[sniff |-> Some(Comma), auto |-> None], [sniff |-> Some(Semicolon), auto |-> None],
     [sniff |-> None, auto |-> None], [sniff |-> None, auto |-> Some(d)]}

BadSets ==
    {{}, {Comma}, {Comma, Semicolon}, {Comma, Semicolon, Tab, Pipe}}

ParseFiles ==
    {[ext |-> "txt", corrupt |-> FALSE, d |-> d, sniff |-> s.sniff, auto |-> s.auto,
      bad |-> b,
      header |-> <<<<" ","D","a","t","e">>, <<"A","M","O","U","N","T">>, <<"D","e","s","c","r","i","p","t","i","o","n"," ">>>>,
      rows |-> << <<<<"2","0","2","4","-","0","9","-","1","2">>, <<"-","6","0",".","0","0">>, <<"C","o","s","t","c","o"," ","G","a","s">>>>,
                  <<<<"2","0","2","4","-","0","8","-","3","0">>, <<"2","5",".","0","0">>, <<"E","s","s","o"," ","R","e","f","u","n","d">>>> >>]
        : d \in {Comma, Semicolon}, s \in SniffOutcomes(Semicolon), b \in BadSets}

OtherFiles ==
    { \* an empty file
      TextFile(<<>>, <<>>),
      \* a ledger without the description column
      TextFile(<<<<"d","a","t","e">>, <<"a","m","o","u","n","t">>>>, << <<<<"2","0","2","4","-","0","9","-","1","2">>, <<"-","6","0",".","0","0">>>> >>),
      \* spreadsheets
      [TextFile(Header3, << <<<<"2","0","2","4","-","0","9","-","1","2">>, <<"-","6","0",".","0","0">>, <<"C","o","s","t","c","o"," ","G","a","s">>>> >>)
          EXCEPT !.ext = "xlsx"],
      [TextFile(Header3, << <<<<"2","0","2","4","-","0","9","-","1","2">>, <<"-","6","0",".","0","0">>, <<"C","o","s","t","c","o"," ","G","a","s">>>> >>)
          EXCEPT !.ext = "xls", !.corrupt = TRUE] }

Files ==
    LedgerFiles \cup ParseFiles \cup OtherFiles

\* the ledgers uploaded in a session in which the rule table is edited
SessionFiles ==
    { \* an expense that two default rules match, and an income of another month
      TextFile(Header3, << <<<<"2","0","2","4","-","0","9","-","1","2">>, <<"-","6","0",".","0","0">>, <<"C","o","s","t","c","o"," ","G","a","s">>>>,
                           <<<<"2","0","2","4","-","0","8","-","3","0">>, <<"2","5",".","0","0">>, <<"E","s","s","o"," ","R","e","f","u","n","d">>>> >>),
      \* an expense without description beside one with
      TextFile(Header3, << <<<<"2","0","2","4","-","0","8","-","1","5">>, <<"-","7",".","2","5">>, <<>> >>,
                           <<<<"2","0","2","4","-","0","8","-","0","2">>, <<"-","1","8",".","7","0">>, <<"U","B","E","R"," ","R","i","d","e">>>> >>),
      \* a ledger whose description column is empty
      TextFile(Header3, << <<<<"2","0","2","4","-","0","8","-","1","5">>, <<"-","7",".","2","5">>, <<>> >> >>),
      \* a ledger whose only row has a bad date
      TextFile(Header3, << <<<<"n","/","a">>, <<"-","5",".","0","0">>, <<"S","h","e","l","l">>>> >>),
      \* a header and no rows
      TextFile(Header3, <<>>),
      \* a ledger without the description column
      TextFile(<<<<"d","a","t","e">>, <<"a","m","o","u","n","t">>>>, << <<<<"2","0","2","4","-","0","9","-","1","2">>, <<"-","6","0",".","0","0">>>> >>) }

OverallBudgets ==
    {0, 5000, 200000}

(***************************************************************************)
(* The script.                                                             *)
(***************************************************************************)
InfoUpload == "Upload a file or click sample to continue."
ErrParse == "Could not parse file. Check format or try sample."
ErrSchema == "File must have columns: {date, amount, description}"
WarnNoDates == "No valid dates found to build budget months."
InfoNoExpenses == "No expenses found for this month."

\* pd.Timestamp.today().to_period("M")
ThisMonth == 202611
\* st.number_input(..., value=2000.0)
DefaultBudget == 200000

RECURSIVE SortSet(_)
\* sorted(...) of a set of months
SortSet(S) ==
    IF S = {} THEN <<>>
    ELSE LET m == CHOOSE x \in S : \A y \in S : x <= y
         IN  <<m>> \o SortSet(S \ {m})

\* sorted(df["year_month"].dropna().unique().tolist()), with the fallback
MonthsOf(rows) ==
    IF rows = <<>> THEN <<ThisMonth>>
    ELSE SortSet({ToPeriod(rows[i].date) : i \in 1..Len(rows)})

\* st.selectbox(options, index=len - 1): the month the user picked while the
\* same options were shown, else the latest month
SelectedMonth(months, shown, picked) ==
    IF picked # None /\ months = shown /\ \E i \in 1..Len(months) : months[i] = picked[1]
    THEN picked[1]
    ELSE months[Len(months)]

\* the rows with the column spent = -amount
WithSpent(rows) ==
    List([i \in 1..Len(rows) |->
        [index |-> rows[i].index, date |-> rows[i].date, amount |-> rows[i].amount,
         description |-> rows[i].description, spent |-> 0 - rows[i].amount]])

\* df[df["year_month"] == sel_period]
MonthData(rows, period) ==
    SelectSeq(rows, LAMBDA r : ToPeriod(r.date) = period)

\* the month's rows of either sign with the column spent
ExpensesUnfiltered(rows, period) ==
    WithSpent(MonthData(rows, period))

\* month_data[month_data["amount"] < 0] with the column spent
ExpensesOf(rows, period) ==
    WithSpent(SelectSeq(MonthData(rows, period), LAMBDA r : r.amount < 0))

\* a run that st.stop() ends before the table is shown
Stopped(src, loaded, msgs, stored) ==
    [source |-> src, raw |-> loaded.df, attempts |-> loaded.attempts,
     columns |-> <<>>, df |-> <<>>, total |-> 0, months |-> <<>>, period |-> 0,
     expenses |-> <<>>, total_spend |-> 0, progress |-> <<0, 1>>, results |-> <<>>,
     screen |-> loaded.errors \o msgs, status |-> "stopped",
     rules |-> stored, overall_budget |-> DefaultBudget, sel_period |-> None]

NotLoaded ==
    [df |-> EmptyFrame, attempts |-> <<>>, errors |-> <<>>]

\* sections 1 and 2: the normalised table
Table(src, loaded, columns) ==
    [source |-> src, raw |-> loaded.df, attempts |-> loaded.attempts,
     errors |-> loaded.errors, columns |-> columns,
     df |-> ParseTypes(columns, loaded.df.rows),
     descIsStr |-> IsStrColumn(loaded.df, ColIndex(columns, <<"d","e","s","c","r","i","p","t","i","o","n">>))]

\* section 2: the summary with the net total
Summary(t) ==
    t @@ [total |-> SumOf(t.df, "amount")]

\* section 3: the months of the table and the one selected
Months(t, shown, picked) ==
    t @@ [months |-> MonthsOf(t.df),
          period |-> SelectedMonth(MonthsOf(t.df), shown, picked)]

\* section 3: the expenses of the selected month
Expenses(t) ==
    t @@ [expenses |-> ExpensesOf(t.df, t.period)]

\* section 4: the overall budget
Overall(t, budget) ==
    t @@ [total_spend |-> IF t.expenses = <<>> THEN 0 ELSE SumOf(t.expenses, "spent"),
          progress |-> Progress(IF t.expenses = <<>> THEN 0 ELSE SumOf(t.expenses, "spent"),
                                budget),
          overall_budget |-> budget]

\* section 5: what the loop over the rules left
Evaluated(t, eval) ==
    t @@ [results |-> eval.results, status |-> IF eval.raised THEN "raised" ELSE "done"]

\* section 5: the rule table and the loop over it
Rules(t, rules) ==
    Evaluated(t @@ [rules |-> Some(rules)],
              IF t.expenses = <<>>
              THEN [raised |-> FALSE, results |-> <<>>]
              ELSE EvalRules(rules, <<>>, t.expenses, DescLower(t.expenses), t.descIsStr))

\* what the run wrote to the page and left in the widgets
Page(t) ==
    t @@ [screen |-> t.errors
                     \o (IF t.df = <<>> THEN <<WarnNoDates>> ELSE <<>>)
                     \o (IF t.expenses = <<>> THEN <<InfoNoExpenses>> ELSE <<>>),
          sel_period |-> Some(t.period)]

\* sections 2 to 5 of the script, for a frame that passed the checks
Budgeting(src, loaded, stored, e, budget, shown, picked) ==
    Page(Rules(Overall(Expenses(Months(Summary(
        Table(src, loaded, NormalizeHeaders(loaded.df.columns))), shown, picked)), budget),
        Edited(SessionRules(stored), e)))

\* the checks of the loaded frame, st.stop() when one fails
Checked(src, loaded, stored, e, budget, shown, picked) ==
    IF IsEmpty(loaded.df)
    THEN Stopped(src, loaded, <<ErrParse>>, stored)
    ELSE IF ~HasRequired(NormalizeHeaders(loaded.df.columns))
    THEN Stopped(src, loaded, <<ErrSchema>>, stored)
    ELSE Budgeting(src, loaded, stored, e, budget, shown, picked)

\* the frame of the sample or of the uploaded file
Load(sample_clicked, uploaded) ==
    IF sample_clicked
    THEN [NotLoaded EXCEPT !.df = ReadCsv(sample_csv, Some(Comma)).df]
    ELSE load_table(uploaded[1])

\* one run of the script from top to bottom
Script(sample_clicked, uploaded, stored, e, budget, shown, picked) ==
    IF ~sample_clicked /\ uploaded = None
    THEN Stopped("none", NotLoaded, <<InfoUpload>>, stored)
    ELSE Checked(IF sample_clicked THEN "sample" ELSE "upload",
                 Load(sample_clicked, uploaded), stored, e, budget, shown, picked)

(***************************************************************************)
(* State.                                                                  *)
(***************************************************************************)
VARIABLES
    file,            \* the file in st.file_uploader, None when there is none
    rules,           \* st.session_state.rules, None while the key is not set
    overall_budget,  \* the value of the overall budget input
    sel_period,      \* the value of the month selectbox, None when not shown
    edits,           \* rule-table edits made in the session
    source,          \* what the last run loaded: "none", "sample", "upload"
    raw,             \* the frame the last run loaded, before normalisation
    attempts,        \* the separators load_table handed to pd.read_csv
    columns,         \* df.columns after normalisation
    df,              \* the rows of the normalised table
    total,           \* Net Total
    months,          \* the options of the month selectbox
    period,          \* the selected month
    expenses,        \* the selected month's expenses
    total_spend,     \* their sum
    progress,        \* the overall progress bar
    results,         \* the per-rule outcomes written, in order
    screen,          \* the errors, warnings and notices of the last run
    status           \* how the last run ended: "stopped", "done", "raised"

vars ==
    <<file, rules, overall_budget, sel_period, edits, source, raw, attempts, columns,
      df, total, months, period, expenses, total_spend, progress, results, screen, status>>

\* the run's effect on everything but the uploader and the edit count
Shows(r) ==
    /\ rules' = r.rules
    /\ overall_budget' = r.overall_budget
    /\ sel_period' = r.sel_period
    /\ source' = r.source
    /\ raw' = r.raw
    /\ attempts' = r.attempts
    /\ columns' = r.columns
    /\ df' = r.df
    /\ total' = r.total
    /\ months' = r.months
    /\ period' = r.period
    /\ expenses' = r.expenses
    /\ total_spend' = r.total_spend
    /\ progress' = r.progress
    /\ results' = r.results
    /\ screen' = r.screen
    /\ status' = r.status

\* the first run of a session: nothing uploaded, nothing clicked
Init ==
    /\ file = None
    /\ edits = 0
    /\ rules = None
    /\ overall_budget = DefaultBudget
    /\ sel_period = None
    /\ source = "none"
    /\ raw = EmptyFrame
    /\ attempts = <<>>
    /\ columns = <<>>
    /\ df = <<>>
    /\ total = 0
    /\ months = <<>>
    /\ period = 0
    /\ expenses = <<>>
    /\ total_spend = 0
    /\ progress = <<0, 1>>
    /\ results = <<>>
    /\ screen = <<InfoUpload>>
    /\ status = "stopped"

\* whether the last run showed the budgeting widgets
WidgetsShown ==
    status \in {"done", "raised"}

\* the user clicks "Load sample data"
ClickSample ==
    /\ \E r \in {Script(TRUE, file, rules, NoEdit, overall_budget, months, sel_period)} :
          Shows(r)
    /\ UNCHANGED <<file, edits>>

\* the user uploads a ledger
UploadFile ==
    \E f \in SessionFiles :
        /\ file' = Some(f)
        /\ \E r \in {Script(FALSE, Some(f), rules, NoEdit, overall_budget, months, sel_period)} :
              Shows(r)
        /\ UNCHANGED edits

\* the user removes the uploaded file
RemoveFile ==
    /\ file # None
    /\ file' = None
    /\ \E r \in {Script(FALSE, None, rules, NoEdit, overall_budget, months, sel_period)} :
          Shows(r)
    /\ UNCHANGED edits

\* the user edits the rule table
EditRules ==
    /\ WidgetsShown
    /\ edits < MaxEdits
    /\ \E e \in Edits(Len(rules[1])) :
          \E r \in {Script(FALSE, file, rules, e, overall_budget, months, sel_period)} :
             Shows(r)
    /\ edits' = edits + 1
    /\ UNCHANGED file

\* the user changes the overall monthly budget
SetBudget ==
    /\ WidgetsShown
    /\ \E b \in OverallBudgets :
          \E r \in {Script(FALSE, file, rules, NoEdit, b, months, sel_period)} :
             Shows(r)
    /\ UNCHANGED <<file, edits>>

\* the user picks another month
SelectMonth ==
    /\ WidgetsShown
    /\ \E i \in 1..Len(months) :
          \E r \in {Script(FALSE, file, rules, NoEdit, overall_budget, months, Some(months[i]))} :
             Shows(r)
    /\ UNCHANGED <<file, edits>>

\* the user uploads any of the files
UploadAny ==
    \E f \in Files :
        /\ file' = Some(f)
        /\ \E r \in {Script(FALSE, Some(f), rules, NoEdit, overall_budget, months, sel_period)} :
              Shows(r)
        /\ UNCHANGED edits

Next ==
    \/ ClickSample
    \/ UploadFile
    \/ RemoveFile
    \/ EditRules
    \/ SetBudget
    \/ SelectMonth

\* a session with uploads, rule edits and the budgeting widgets
Spec ==
    Init /\ [][Next]_vars

NextLoad ==
    \/ ClickSample
    \/ UploadAny
    \/ RemoveFile
    \/ SelectMonth

\* a session that loads one file after another
LoadSpec ==
    Init /\ [][NextLoad]_vars

(***************************************************************************)
(* Properties.                                                             *)
(***************************************************************************)
Range(s) ==
    {s[i] : i \in 1..Len(s)}

Loaded ==
    status \in {"done", "raised"}

\* C1: for a text upload load_table always returns a frame: it hands the
\* text to pd.read_csv with the sniffed separator (or none), then, while the
\* attempts fail, with comma, semicolon, tab and pipe in that order; it
\* returns the frame of the first attempt that succeeds and the empty frame
\* when all five fail.
C1_FallbackChain ==
    (source = "upload" /\ ~IsExcel(file[1])) =>
        LET f     == file[1]
            chain == <<f.sniff, Some(","), Some(";"), Some("\t"), Some("|")>>
        IN  \E n \in 1..5 :
               /\ attempts = SubSeq(chain, 1, n)
               /\ \A j \in 1..(n - 1) : ~ReadCsv(f, chain[j]).ok
               /\ IF ReadCsv(f, chain[n]).ok
                  THEN raw = ReadCsv(f, chain[n]).df
                  ELSE n = 5 /\ raw = EmptyFrame

\* C1 witness: the first attempt and two explicit separators failed and the
\* third explicit separator gave the frame
C1_Witness ==
    /\ source = "upload"
    /\ ~IsExcel(file[1])
    /\ Len(attempts) = 4
    /\ attempts[4] = Some("\t")
    /\ raw # EmptyFrame

\* the fraction p is min(1, spent / limit) for a positive limit and 0
\* otherwise, and lies in [0, 1]
IsProgressOf(p, spent, limit) ==
    /\ p[2] > 0
    /\ 0 <= p[1]
    /\ p[1] <= p[2]
    /\ IF limit > 0
       THEN (IF spent >= limit THEN p[1] = p[2] ELSE p = <<spent, limit>>)
       ELSE p[1] = 0

\* C2: the overall progress and the progress of every rule that was
\* evaluated is min(1.0, spent / limit) when the limit is positive and 0.0
\* when the limit is zero, negative or missing: a defined value in [0, 1],
\* never a division by zero.
C2_ProgressDefined ==
    Loaded =>
        /\ IsProgressOf(progress, total_spend, overall_budget)
        /\ \A i \in 1..Len(results) :
              results[i].kind = "spent" =>
                 /\ IsProgressOf(results[i].progress, results[i].cat_spent, results[i].limit)
                 /\ rules[1][i].budget = None => results[i].progress[1] = 0
                 /\ rules[1][i].budget # None => results[i].limit = rules[1][i].budget[1]

\* C2 witness: money was spent against an overall budget of zero and against
\* a rule whose limit is zero
C2_Witness ==
    /\ status = "done"
    /\ overall_budget = 0
    /\ total_spend > 0
    /\ progress[1] = 0
    /\ \E i \in 1..Len(results) :
          /\ results[i].kind = "spent"
          /\ results[i].limit = 0
          /\ results[i].cat_spent > 0
          /\ results[i].progress[1] = 0

\* the table new is the table old with one keyword added to rule i, whose
\* keyword list was not empty
AddsKeyword(old, new, i) ==
    /\ Len(new) = Len(old)
    /\ i \in 1..Len(old)
    /\ \A j \in 1..Len(old) : j # i => new[j] = old[j]
    /\ new[i].category = old[i].category
    /\ new[i].budget = old[i].budget
    /\ KeywordsOf(old[i]) # <<>>
    /\ Len(KeywordsOf(new[i])) = Len(KeywordsOf(old[i])) + 1
    /\ SubSeq(KeywordsOf(new[i]), 1, Len(KeywordsOf(old[i]))) = KeywordsOf(old[i])

\* C3: keyword match monotonicity: over the same expenses, adding one more
\* keyword to a rule with keywords yields a matched set that is a superset of
\* the rule's previous matched set and a cat_spent that is no lower.
C3_KeywordMonotone ==
    [][\A i \in 1..Len(results) :
          (/\ status = "done"
           /\ expenses' = expenses
           /\ rules' # None
           /\ AddsKeyword(rules[1], rules'[1], i))
          => /\ Len(results') >= i
             /\ results'[i].kind = "spent"
             /\ Range(results[i].matched) \subseteq Range(results'[i].matched)
             /\ results'[i].cat_spent >= results[i].cat_spent]_vars

\* C4 as claimed: the sample yields 9 records and a net total of 4147.95
C4_SampleTotalClaimed ==
    (source = "sample" /\ Loaded) => (Len(df) = 9 /\ total = 414795)

\* C4: loading the bundled sample yields exactly 9 records after
\* normalisation, none dropped, and the net total, the sum of the 9 amounts
\* (2000.00 + 1500.00 minus the 7 expense magnitudes), is 3132.12.
C4_SampleTotal ==
    (source = "sample" /\ Loaded) =>
        /\ Len(raw.rows) = 9
        /\ Len(df) = 9
        /\ Cardinality({i \in 1..9 : df[i].amount < 0}) = 7
        /\ total = 200000 + 150000 - SumOf(expenses, "spent")
        /\ total = 313212

\* C4 witness: a run that loaded the sample and showed its net total
C4_Witness ==
    /\ source = "sample"
    /\ status = "done"
    /\ Len(df) = 9
    /\ total_spend = 36788

TransportKeywords ==
    Some(<<"u","b","e","r",",","l","y","f","t",",","s","h","e","l","l",",","e","s","s","o",",","p","e","t","r","o",",","g","a","s">>)

\* C5: on the sample, month 2024-09, the rule with the default Transport
\* keywords matches exactly "UBER Ride" (18.70) and "Shell Gas Station"
\* (60.00), so cat_spent = 78.70.
C5_TransportOnSample ==
    (source = "sample" /\ status = "done") =>
        /\ period = 202409
        /\ Len(results) = Len(rules[1])
        /\ \A i \in 1..Len(results) :
              rules[1][i].keywords = TransportKeywords =>
                 /\ results[i].kind = "spent"
                 /\ Len(results[i].matched) = 2
                 /\ results[i].matched[1].description = <<"U","B","E","R"," ","R","i","d","e">>
                 /\ results[i].matched[1].spent = 1870
                 /\ results[i].matched[2].description = <<"S","h","e","l","l"," ","G","a","s"," ","S","t","a","t","i","o","n">>
                 /\ results[i].matched[2].spent = 6000
                 /\ results[i].cat_spent = 7870

\* C5 witness: the sample was evaluated under a rule with the default
\* Transport keywords
C5_Witness ==
    /\ source = "sample"
    /\ status = "done"
    /\ \E i \in 1..Len(results) :
          rules[1][i].keywords = TransportKeywords /\ results[i].cat_spent = 7870

\* the uploaded text has the three columns and no data row, and was split at
\* its own delimiter
HeaderOnly ==
    /\ source = "upload"
    /\ ~IsExcel(file[1])
    /\ file[1].rows = <<>>
    /\ HasRequired(NormalizeHeaders(file[1].header))
    /\ raw.columns = file[1].header

\* C6: a file with only the header row date, amount, description is loaded
\* as a zero-row table and is not an error: no parse failure is reported and
\* the run does not halt on it.
C6_HeaderOnlyNotError ==
    HeaderOnly =>
        /\ Len(raw.rows) = 0
        /\ Len(raw.columns) = 3
        /\ \A i \in 1..Len(screen) : screen[i] # ErrParse
        /\ status # "stopped"

\* C7: whatever the table, the month and the rule list, the evaluation ends
\* without error with one outcome per rule, in the order of the rule list:
\* "no keywords set" for a rule without keywords, else the spent outcome,
\* which is zero spent and zero progress when nothing matches.
C7_OneOutcomePerRule ==
    status # "stopped" =>
        /\ status = "done"
        /\ Len(results) = Len(rules[1])
        /\ \A i \in 1..Len(results) :
              /\ results[i].category = CategoryOf(rules[1][i])
              /\ KeywordsOf(rules[1][i]) = <<>> => results[i].kind = "no keywords set"
              /\ KeywordsOf(rules[1][i]) # <<>> =>
                    /\ results[i].kind = "spent"
                    /\ results[i].matched = <<>> =>
                          (results[i].cat_spent = 0 /\ results[i].progress[1] = 0)

\* C8: the rule list is set to the three defaults only when the session has
\* none; from then on it stays set, changes only in a step that is a user
\* edit of the rule table, and a step that changes the uploaded file leaves
\* it as it was while the table is that of the new file.
C8_RulesPersist ==
    [][/\ (rules = None /\ rules' # None) =>
             /\ rules'[1] = DefaultRules
             /\ Len(rules'[1]) = 3
             /\ rules'[1][1].category = Some(<<"G","r","o","c","e","r","i","e","s">>)
             /\ rules'[1][2].category = Some(<<"T","r","a","n","s","p","o","r","t">>)
             /\ rules'[1][3].category = Some(<<"E","n","t","e","r","t","a","i","n","m","e","n","t">>)
       /\ rules # None =>
             /\ rules' # None
             /\ rules' # rules => edits' = edits + 1
       /\ (file' # file /\ rules # None) => rules' = rules
       /\ (file' # file /\ file' # None) =>
             /\ source' = "upload"
             /\ ~IsExcel(file'[1]) => Len(raw'.rows) \in {0, Len(file'[1].rows)}]_vars

\* C8 witness: a run for an upload that stopped before the rule editor, with
\* the edited rule list still in the session
C8_Witness ==
    /\ source = "upload"
    /\ status = "stopped"
    /\ edits > 0
    /\ rules # None
    /\ rules[1] # DefaultRules

\* the date and the amount of row i of the loaded frame both coerce
Coerces(i) ==
    /\ ToDatetime(raw.rows[i][ColIndex(columns, <<"d","a","t","e">>)]) # None
    /\ ToNumeric(raw.rows[i][ColIndex(columns, <<"a","m","o","u","n","t">>)]) # None

\* C9: after normalisation every record has its parsed date and amount; a
\* source row is dropped exactly when its date or its amount does not
\* coerce, and the rows that remain are in the order of the source.
C9_DroppedIffUncoerced ==
    Loaded =>
        /\ \A j \in 1..Len(df) :
              LET i == df[j].index + 1
              IN  /\ i \in 1..Len(raw.rows)
                  /\ Coerces(i)
                  /\ df[j].date = ToDatetime(raw.rows[i][ColIndex(columns, <<"d","a","t","e">>)])[1]
                  /\ df[j].amount = ToNumeric(raw.rows[i][ColIndex(columns, <<"a","m","o","u","n","t">>)])[1]
        /\ \A i \in 1..Len(raw.rows) :
              Coerces(i) <=> \E j \in 1..Len(df) : df[j].index = i - 1
        /\ \A j, k \in 1..Len(df) : j < k => df[j].index < df[k].index

\* C9 witness: a ledger of which one row was dropped and a later row kept
C9_Witness ==
    /\ status = "done"
    /\ source = "upload"
    /\ Len(df) >= 1
    /\ Len(df) < Len(raw.rows)
    /\ df[1].index > 0

\* C10: every rule's matched rows are records of the selected month with a
\* strictly negative amount, so 0 <= cat_spent <= total spend of the month
\* for each rule.
C10_MatchedAreExpenses ==
    Loaded =>
        /\ total_spend = SumOf(expenses, "spent")
        /\ \A i \in 1..Len(results) :
              /\ \A m \in Range(results[i].matched) :
                    /\ m.amount < 0
                    /\ m.spent = 0 - m.amount
                    /\ ToPeriod(m.date) = period
                    /\ \E r \in Range(df) :
                          /\ r.index = m.index
                          /\ r.date = m.date
                          /\ r.amount = m.amount
                          /\ r.description = m.description
              /\ 0 <= results[i].cat_spent
              /\ results[i].cat_spent <= total_spend

RECURSIVE SumSpent(_)
SumSpent(outcomes) ==
    IF outcomes = <<>> THEN 0 ELSE outcomes[1].cat_spent + SumSpent(Tail(outcomes))

\* C10 witness: one expense matched two rules, and the rules' cat_spent add
\* up to more than the month's total spend
C10_Witness ==
    /\ status = "done"
    /\ total_spend > 0
    /\ SumSpent(results) > total_spend
=============================================================================
